---- MODULE Spec2Model ----
(***************************************************************************)
(* The preventive-maintenance scheduling engine of the PM System backend:  *)
(* the pm_schedules and pm_executions tables, the request handlers of      *)
(* routes/maintenance.py that write them, and the queries that list        *)
(* schedules.                                                              *)
(*                                                                         *)
(* Time is counted in whole days: every interval the handlers add is a     *)
(* whole number of days, and the clock reads of one handler step fall in   *)
(* the same day.  A nullable DateTime column holds a day or None.          *)
(*                                                                         *)
(* A handler that loads a row, changes it and commits is two steps, the    *)
(* load-and-change and the commit, so that handlers served by different    *)
(* workers interleave between them.  A worker's SQLAlchemy session keeps   *)
(* the row as loaded and the row as changed; db.commit() sends one UPDATE  *)
(* per changed row that carries the columns whose value differs from the   *)
(* loaded one, and the database applies the UPDATEs of one commit at once. *)
(* A handler that raises answers with an error status and its session is   *)
(* closed without a commit, which rolls its transaction back.              *)
(***************************************************************************)
EXTENDS Integers, FiniteSets, TLC

\* ---------------------------------------------------------------- bounds
MaxNow == 2
MaxSchedules == 2
MaxExecutions == 2
MaxFrequencyValue == 2
MaxDays == 1
MaxRequests == 5

\* None of Python, NULL of SQL, for a nullable DateTime or Integer column
None == -1

\* the workers that serve requests side by side, each with its own session
Workers == {1, 2}

\* ----------------------------------------------------------------- enums
FrequencyType == {"DAILY", "WEEKLY", "MONTHLY", "QUARTERLY", "ANNUAL"}

PMStatus == {"SCHEDULED", "IN_PROGRESS", "COMPLETED", "CANCELLED", "OVERDUE"}

\* the value of an Optional[PMStatus] field the request does not carry
NoStatus == "None"

\* the value of an Optional[FrequencyType] field the request does not carry
NoFrequency == "None"

\* ------------------------------------------------- the tables referred to
\* the ids requests name machines, procedures and users by
MachineIds == {1, 2}

ProcedureIds == {1, 2}

UserIds == {1, 2}

\* the rows of machines, procedures and users, by id
Machines == {1}

Procedures == {1}

Users == {1}

\* get_current_user: the id of the user every request is served for
current_user == 1

VARIABLES
    now,          \* datetime.utcnow(), in days
    schedules,    \* committed pm_schedules rows, by id
    executions,   \* committed pm_executions rows, by id
    next_execution_id,   \* the id the next INSERT into pm_executions gets
    session,      \* per worker: the handler in flight and its SQLAlchemy session
    requests,     \* the number of requests received so far
    status_code,  \* the HTTP status of the response sent last, None before any
    foreign_keys  \* whether the database of DATABASE_URL enforces FOREIGN KEYs

vars == <<now, schedules, executions, next_execution_id, session, requests,
          status_code, foreign_keys>>

\* a request is received; the runs examined are those of at most
\* MaxRequests requests
Receive ==
    /\ requests < MaxRequests
    /\ requests' = requests + 1

\* ------------------------------------------------------------------ rows
\* the columns of a pm_schedules row the engine reads or writes
PMSchedule(machine_id, procedure_id, user_id, frequency, frequency_value, last_completed, next_due, is_active) ==
    [machine_id |-> machine_id, procedure_id |-> procedure_id,
     user_id |-> user_id,
     frequency |-> frequency, frequency_value |-> frequency_value,
     last_completed |-> last_completed, next_due |-> next_due,
     is_active |-> is_active]

\* the columns of a pm_executions row the engine reads or writes
PMExecution(pm_schedule_id, executed_by_id, status, started_at, completed_at, next_due_calculated) ==
    [pm_schedule_id |-> pm_schedule_id, executed_by_id |-> executed_by_id,
     status |-> status,
     started_at |-> started_at, completed_at |-> completed_at,
     next_due_calculated |-> next_due_calculated]

\* a request body of POST /schedules: the fields of the row it becomes
PMScheduleCreate(machine_id, procedure_id, user_id, frequency, frequency_value, last_completed, next_due, is_active) ==
    PMSchedule(machine_id, procedure_id, user_id, frequency, frequency_value,
               last_completed, next_due, is_active)

\* a request body of PUT /schedules/{id}: the fields it carries
\* (dict(exclude_unset=True)) and their values
PMScheduleUpdate(fields_set, frequency, frequency_value, last_completed, next_due, is_active) ==
    [fields_set |-> fields_set,
     frequency |-> frequency, frequency_value |-> frequency_value,
     last_completed |-> last_completed, next_due |-> next_due,
     is_active |-> is_active]

\* a request body of POST /schedules/{id}/executions; pm_schedule_id and
\* executed_by_id are overwritten by the handler
PMExecutionCreate(status, started_at, completed_at, next_due_calculated) ==
    [status |-> status, started_at |-> started_at,
     completed_at |-> completed_at, next_due_calculated |-> next_due_calculated]

\* a request body of PUT /executions/{id}: the fields it carries
\* (dict(exclude_unset=True)) and the value of every field, None when absent
PMExecutionUpdate(fields_set, pm_schedule_id, executed_by_id, status, started_at, completed_at, next_due_calculated) ==
    [fields_set |-> fields_set, pm_schedule_id |-> pm_schedule_id,
     executed_by_id |-> executed_by_id,
     status |-> status, started_at |-> started_at,
     completed_at |-> completed_at, next_due_calculated |-> next_due_calculated]

\* ------------------------------------------------------------ validation
\* a plausible slip: ge=1 is left off frequency_value
PMScheduleCreate_unbounded(schedule_data) ==
    schedule_data.frequency \in FrequencyType

\* pydantic accepts the body of POST /schedules: frequency is a member of
\* FrequencyType and frequency_value satisfies ge=1
PMScheduleCreate_validate(schedule_data) ==
    /\ schedule_data.frequency \in FrequencyType
    /\ schedule_data.frequency_value >= 1

\* pydantic accepts the body of PUT /schedules/{id}: the constraints bear on
\* the fields that are not None
PMScheduleUpdate_validate(schedule_data) ==
    /\ schedule_data.frequency \in FrequencyType \cup {NoFrequency}
    /\ schedule_data.frequency_value = None \/ schedule_data.frequency_value >= 1

\* ----------------------------------------------------- table constraints
\* nullable=False and, where the database enforces them, the ForeignKeys of
\* pm_schedules
pm_schedules_constraints(row) ==
    /\ row.machine_id # None
    /\ row.procedure_id # None
    /\ row.user_id # None
    /\ row.frequency # NoFrequency
    /\ row.frequency_value # None
    /\ row.next_due # None
    /\ foreign_keys =>
          /\ row.machine_id \in Machines
          /\ row.procedure_id \in Procedures
          /\ row.user_id \in Users

\* nullable=False and, where the database enforces them, the ForeignKeys of
\* pm_executions
pm_executions_constraints(row) ==
    /\ row.pm_schedule_id # None
    /\ row.executed_by_id # None
    /\ row.status # NoStatus
    /\ foreign_keys =>
          /\ row.pm_schedule_id \in DOMAIN schedules
          /\ row.executed_by_id \in Users

\* ---------------------------------------------------------------- inputs
\* the frequencies the requests of Spec create schedules with
FrequencyInputs == {"DAILY", "WEEKLY"}

\* the next_due values the requests create schedules with
NextDueInputs == 1 .. MaxNow

\* the request bodies sent to POST /schedules, of the frequencies F
PMScheduleCreateInputs(F) ==
    {PMScheduleCreate(m, p, u, f, n, None, d, TRUE) :
        m \in Machines, p \in Procedures, u \in Users,
        f \in F, n \in 1 .. MaxFrequencyValue, d \in NextDueInputs}

\* the request bodies sent to POST /schedules/{id}/executions
PMExecutionCreateInputs ==
    {PMExecutionCreate("SCHEDULED", None, None, None)}

\* the request bodies sent to PUT /executions/{id}
PMExecutionUpdateInputs ==
    {PMExecutionUpdate({}, None, None, NoStatus, None, None, None)}
    \cup {PMExecutionUpdate({"status"}, None, None, st, None, None, None) :
              st \in PMStatus}
    \cup {PMExecutionUpdate({"status", "completed_at"}, None, None, "COMPLETED",
                            None, 0, None)}
    \cup {PMExecutionUpdate({"status", "next_due_calculated"}, None, None,
                            "COMPLETED", None, None, 0)}
    \cup {PMExecutionUpdate({"status", "pm_schedule_id"}, sid, None, "COMPLETED",
                            None, None, None) : sid \in 1 .. MaxSchedules}
    \cup {PMExecutionUpdate({"pm_schedule_id"}, sid, None, NoStatus,
                            None, None, None) : sid \in 1 .. MaxSchedules}

\* the values of ?days= sent to GET /dashboard/upcoming
DaysInputs == -1 .. MaxDays

\* further request bodies sent to POST /schedules: a multiplier of 0, an
\* unknown unit, a machine, a procedure or a user that does not exist, and a
\* last_completed next to a next_due of the caller's choice
PMScheduleCreateFaults ==
    {PMScheduleCreate(1, 1, 1, "DAILY", 0, None, 1, TRUE),
     PMScheduleCreate(1, 1, 1, "HOURLY", 1, None, 1, TRUE),
     PMScheduleCreate(1, 1, 1, "DAILY", 1, 0, MaxNow, TRUE)}
    \cup {PMScheduleCreate(m, 1, 1, "DAILY", 1, None, 1, TRUE) :
              m \in MachineIds \ Machines}
    \cup {PMScheduleCreate(1, p, 1, "DAILY", 1, None, 1, TRUE) :
              p \in ProcedureIds \ Procedures}
    \cup {PMScheduleCreate(1, 1, u, "DAILY", 1, None, 1, TRUE) :
              u \in UserIds \ Users}

\* the request bodies sent to PUT /schedules/{id}: a multiplier of 0, an
\* unknown unit, a null multiplier, another multiplier, another next_due
PMScheduleUpdateInputs ==
    {PMScheduleUpdate({"frequency_value"}, NoFrequency, 0, None, None, None),
     PMScheduleUpdate({"frequency"}, "HOURLY", None, None, None, None),
     PMScheduleUpdate({"frequency_value"}, NoFrequency, None, None, None, None),
     PMScheduleUpdate({"frequency_value"}, NoFrequency, MaxFrequencyValue,
                      None, None, None),
     PMScheduleUpdate({"next_due"}, NoFrequency, None, None, 0, None)}

\* further request bodies sent to POST /schedules/{id}/executions: an
\* execution that is born completed
PMExecutionCreateFaults ==
    {PMExecutionCreate("COMPLETED", None, 0, None)}

\* the started_at values the requests carry
StartedAtInputs == 0 .. 1

\* further request bodies sent to PUT /executions/{id}: a start with a
\* started_at, an executor that does not exist, a completion with a null
\* pm_schedule_id
PMExecutionUpdateFaults ==
    {PMExecutionUpdate({"status", "started_at"}, None, None, "IN_PROGRESS",
                       d, None, None) : d \in StartedAtInputs}
    \cup {PMExecutionUpdate({"executed_by_id"}, None, u, NoStatus,
                            None, None, None) : u \in UserIds \ Users}
    \cup {PMExecutionUpdate({"status", "pm_schedule_id"}, None, None,
                            "COMPLETED", None, None, None)}

\* ------------------------------------------------------------- the session
\* a worker between two requests
Idle == [pc |-> "idle"]

\* execution.pm_schedule of an execution whose pm_schedule_id matches no row
NoSchedule == [id |-> None]

\* the for/setattr loop of a partial update: every field the request carries
\* is assigned to the loaded row
SetAttrs(row, data) ==
    [f \in DOMAIN row |-> IF f \in data.fields_set THEN data[f] ELSE row[f]]

\* the UPDATE a commit emits for one row: the columns whose value in the
\* session differs from the value loaded, over the row as committed by then
Flush(committed, loaded, current) ==
    [f \in DOMAIN committed |->
        IF current[f] # loaded[f] THEN current[f] ELSE committed[f]]

\* the handler answers with the status code and writes nothing
Answer(code) ==
    /\ status_code' = code
    /\ UNCHANGED <<schedules, executions, next_execution_id, session>>

\* ------------------------------------------------------ frequency arithmetic
\* a plausible slip: the weekly branch forgets the multiplier
next_due_weekly_once(completed_at, frequency, frequency_value) ==
    IF frequency = "DAILY" THEN completed_at + frequency_value
    ELSE IF frequency = "WEEKLY" THEN completed_at + 7
    ELSE IF frequency = "MONTHLY" THEN completed_at + 30 * frequency_value
    ELSE IF frequency = "QUARTERLY" THEN completed_at + 90 * frequency_value
    ELSE IF frequency = "ANNUAL" THEN completed_at + 365 * frequency_value
    ELSE None

\* the if/elif chain that computes schedule.next_due from completed_at;
\* timedelta(weeks=n) is 7 n days
roll_forward_next_due(completed_at, frequency, frequency_value) ==
    IF frequency = "DAILY" THEN completed_at + frequency_value
    ELSE IF frequency = "WEEKLY" THEN completed_at + 7 * frequency_value
    ELSE IF frequency = "MONTHLY" THEN completed_at + 30 * frequency_value
    ELSE IF frequency = "QUARTERLY" THEN completed_at + 90 * frequency_value
    ELSE IF frequency = "ANNUAL" THEN completed_at + 365 * frequency_value
    ELSE None

\* a plausible slip: the test reads the row's status, not the request's
completes_by_row(execution, execution_data) ==
    execution.status = "COMPLETED"

\* a plausible guard: the roll-forward runs only for an execution that has
\* no completed_at yet
completes_first(execution, execution_data) ==
    /\ execution_data.status = "COMPLETED"
    /\ execution.completed_at = None

\* the test that triggers the roll-forward: the status the request carries
completes(execution, execution_data) ==
    execution_data.status = "COMPLETED"

\* ------------------------------------------------------------------ Init
\* the tables are empty; DATABASE_URL names SQLite, which as connected here
\* enforces no FOREIGN KEY, or PostgreSQL, which does
Start(builds) ==
    /\ now = 0
    /\ schedules = << >>
    /\ executions = << >>
    /\ next_execution_id = 1
    /\ session = [w \in Workers |-> Idle]
    /\ requests = 0
    /\ status_code = None
    /\ foreign_keys \in builds

\* the default DATABASE_URL
Init == Start({FALSE})

\* either database
InitFaults == Start(BOOLEAN)

\* ---------------------------------------------------------------- actions
\* the clock advances by a day
Tick ==
    /\ now < MaxNow
    /\ now' = now + 1
    /\ UNCHANGED <<schedules, executions, next_execution_id, session, requests,
                   status_code, foreign_keys>>

\* POST /schedules: 422 when pydantic rejects the body, 404 when the machine
\* or the procedure is not found; otherwise the row is inserted as the
\* request gives it, under the next id, unless a constraint fails
create_pm_schedule(schedule_data) ==
    /\ Receive
    /\ IF ~PMScheduleCreate_validate(schedule_data) THEN Answer(422)
       ELSE IF schedule_data.machine_id \notin Machines THEN Answer(404)
       ELSE IF schedule_data.procedure_id \notin Procedures THEN Answer(404)
       ELSE IF ~pm_schedules_constraints(schedule_data) THEN Answer(500)
       ELSE /\ Cardinality(DOMAIN schedules) < MaxSchedules
            /\ schedules' = schedules @@
                  ((Cardinality(DOMAIN schedules) + 1) :> schedule_data)
            /\ status_code' = 200
            /\ UNCHANGED <<executions, next_execution_id, session>>
    /\ UNCHANGED <<now, foreign_keys>>

\* PUT /schedules/{id}, up to db.commit(): 422 when pydantic rejects the
\* body, 404 when the schedule is not found; otherwise the request's fields
\* are assigned to the loaded row
update_pm_schedule(w, schedule_id, schedule_data) ==
    /\ Receive
    /\ session[w].pc = "idle"
    /\ IF ~PMScheduleUpdate_validate(schedule_data) THEN Answer(422)
       ELSE IF schedule_id \notin DOMAIN schedules THEN Answer(404)
       ELSE /\ session' = [session EXCEPT ![w] =
                  [pc |-> "commit_schedule", schedule_data |-> schedule_data,
                   schedule_id |-> schedule_id,
                   schedule0 |-> schedules[schedule_id],
                   schedule |-> SetAttrs(schedules[schedule_id], schedule_data)]]
            /\ UNCHANGED <<schedules, executions, next_execution_id, status_code>>
    /\ UNCHANGED <<now, foreign_keys>>

\* db.commit() of PUT /schedules/{id}: the UPDATE takes effect unless a
\* constraint fails, which rolls the transaction back
update_pm_schedule_commit(w) ==
    /\ session[w].pc = "commit_schedule"
    /\ LET u == session[w]
           schedule == Flush(schedules[u.schedule_id], u.schedule0, u.schedule)
       IN IF pm_schedules_constraints(schedule)
          THEN /\ schedules' = [schedules EXCEPT ![u.schedule_id] = schedule]
               /\ status_code' = 200
          ELSE /\ status_code' = 500
               /\ UNCHANGED schedules
    /\ session' = [session EXCEPT ![w] = Idle]
    /\ UNCHANGED <<now, executions, next_execution_id, requests, foreign_keys>>

\* DELETE /schedules/{id}: 404 when the schedule is not found, otherwise a
\* soft delete
delete_pm_schedule(schedule_id) ==
    /\ Receive
    /\ IF schedule_id \notin DOMAIN schedules THEN Answer(404)
       ELSE /\ schedules' = [schedules EXCEPT ![schedule_id].is_active = FALSE]
            /\ status_code' = 200
            /\ UNCHANGED <<executions, next_execution_id, session>>
    /\ UNCHANGED <<now, foreign_keys>>

\* POST /schedules/{id}/executions: 404 when the schedule is not found;
\* otherwise the row is inserted as the request gives it, for the schedule of
\* the path and the current user
create_pm_execution(schedule_id, execution_data) ==
    /\ Receive
    /\ IF schedule_id \notin DOMAIN schedules THEN Answer(404)
       ELSE /\ next_execution_id <= MaxExecutions
            /\ executions' = executions @@
                  (next_execution_id :>
                      PMExecution(schedule_id, current_user,
                                  execution_data.status,
                                  execution_data.started_at,
                                  execution_data.completed_at,
                                  execution_data.next_due_calculated))
            /\ next_execution_id' = next_execution_id + 1
            /\ status_code' = 200
            /\ UNCHANGED <<schedules, session>>
    /\ UNCHANGED <<now, foreign_keys>>

\* a plausible slip: the next period is counted from the previous due date,
\* not from the completion
update_pm_execution_from_due(w, execution_id, execution_data) ==
    /\ Receive
    /\ session[w].pc = "idle"
    /\ IF execution_id \notin DOMAIN executions THEN Answer(404)
       ELSE LET execution0 == executions[execution_id]
                schedule_id == execution0.pm_schedule_id
                schedule0 == IF schedule_id \in DOMAIN schedules
                             THEN schedules[schedule_id]
                             ELSE NoSchedule
                assigned == SetAttrs(execution0, execution_data)
                completed == completes(assigned, execution_data)
                execution == IF completed
                             THEN [assigned EXCEPT !.completed_at = now]
                             ELSE assigned
                schedule == IF completed
                            THEN [schedule0 EXCEPT
                                    !.last_completed = execution.completed_at,
                                    !.next_due = roll_forward_next_due(
                                                     schedule0.next_due,
                                                     schedule0.frequency,
                                                     schedule0.frequency_value)]
                            ELSE schedule0
            IN IF completed /\ schedule0 = NoSchedule THEN Answer(500)
               ELSE /\ session' = [session EXCEPT ![w] =
                          [pc |-> "commit", execution_data |-> execution_data,
                           execution_id |-> execution_id,
                           execution0 |-> execution0,
                           execution |-> execution, schedule_id |-> schedule_id,
                           schedule0 |-> schedule0, schedule |-> schedule]]
                    /\ UNCHANGED <<schedules, executions, next_execution_id,
                                   status_code>>
    /\ UNCHANGED <<now, foreign_keys>>

\* PUT /executions/{id}, up to db.commit(): 404 when the execution is not
\* found; otherwise load the execution and, with it, its pm_schedule; assign
\* the request's fields; on status COMPLETED stamp completed_at and roll the
\* loaded schedule forward, which raises when there is none.
\* execution.pm_schedule stays the schedule loaded with the row, whatever
\* pm_schedule_id is assigned
update_pm_execution(w, execution_id, execution_data) ==
    /\ Receive
    /\ session[w].pc = "idle"
    /\ IF execution_id \notin DOMAIN executions THEN Answer(404)
       ELSE LET execution0 == executions[execution_id]
                schedule_id == execution0.pm_schedule_id
                schedule0 == IF schedule_id \in DOMAIN schedules
                             THEN schedules[schedule_id]
                             ELSE NoSchedule
                assigned == SetAttrs(execution0, execution_data)
                completed == completes(assigned, execution_data)
                execution == IF completed
                             THEN [assigned EXCEPT !.completed_at = now]
                             ELSE assigned
                schedule == IF completed
                            THEN [schedule0 EXCEPT
                                    !.last_completed = execution.completed_at,
                                    !.next_due = roll_forward_next_due(
                                                     execution.completed_at,
                                                     schedule0.frequency,
                                                     schedule0.frequency_value)]
                            ELSE schedule0
            IN IF completed /\ schedule0 = NoSchedule THEN Answer(500)
               ELSE /\ session' = [session EXCEPT ![w] =
                          [pc |-> "commit", execution_data |-> execution_data,
                           execution_id |-> execution_id,
                           execution0 |-> execution0,
                           execution |-> execution, schedule_id |-> schedule_id,
                           schedule0 |-> schedule0, schedule |-> schedule]]
                    /\ UNCHANGED <<schedules, executions, next_execution_id,
                                   status_code>>
    /\ UNCHANGED <<now, foreign_keys>>

\* the rows a commit of worker w's session would leave in pm_executions
flushed_executions(w) ==
    LET u == session[w]
    IN [executions EXCEPT ![u.execution_id] =
           Flush(executions[u.execution_id], u.execution0, u.execution)]

\* the rows a commit of worker w's session would leave in pm_schedules
flushed_schedules(w) ==
    LET u == session[w]
    IN IF u.schedule0 = NoSchedule THEN schedules
       ELSE [schedules EXCEPT ![u.schedule_id] =
                Flush(schedules[u.schedule_id], u.schedule0, u.schedule)]

\* the commit of worker w's session succeeds: the execution's row is still
\* there and the constraints hold of what the UPDATE leaves in it
commit_succeeds(w) ==
    /\ session[w].execution_id \in DOMAIN executions
    /\ pm_executions_constraints(flushed_executions(w)[session[w].execution_id])

\* a plausible slip: the execution is committed on its own and the schedule's
\* UPDATE is left out of the transaction
db_commit_execution_only(w) ==
    /\ session[w].pc = "commit"
    /\ IF commit_succeeds(w)
       THEN /\ executions' = flushed_executions(w)
            /\ status_code' = 200
            /\ UNCHANGED schedules
       ELSE /\ status_code' = 500
            /\ UNCHANGED <<schedules, executions>>
    /\ session' = [session EXCEPT ![w] = Idle]
    /\ UNCHANGED <<now, next_execution_id, requests, foreign_keys>>

\* a plausible slip: every UPDATE is committed as it is sent, so that the
\* schedule's stays when the execution's fails
db_commit_autocommit(w) ==
    /\ session[w].pc = "commit"
    /\ IF commit_succeeds(w)
       THEN /\ executions' = flushed_executions(w)
            /\ schedules' = flushed_schedules(w)
            /\ status_code' = 200
       ELSE /\ schedules' = flushed_schedules(w)
            /\ status_code' = 500
            /\ UNCHANGED executions
    /\ session' = [session EXCEPT ![w] = Idle]
    /\ UNCHANGED <<now, next_execution_id, requests, foreign_keys>>

\* db.commit() of PUT /executions/{id}: the UPDATEs of the execution and of
\* the schedule take effect together; when the UPDATE of the execution
\* matches no row, its row deleted in the meantime, or fails a constraint,
\* the whole transaction is rolled back
db_commit(w) ==
    /\ session[w].pc = "commit"
    /\ IF commit_succeeds(w)
       THEN /\ executions' = flushed_executions(w)
            /\ schedules' = flushed_schedules(w)
            /\ status_code' = 200
       ELSE /\ status_code' = 500
            /\ UNCHANGED <<schedules, executions>>
    /\ session' = [session EXCEPT ![w] = Idle]
    /\ UNCHANGED <<now, next_execution_id, requests, foreign_keys>>

\* DELETE /executions/{id}: 404 when the execution is not found
delete_pm_execution(execution_id) ==
    /\ Receive
    /\ IF execution_id \notin DOMAIN executions THEN Answer(404)
       ELSE /\ executions' =
                  [e \in DOMAIN executions \ {execution_id} |-> executions[e]]
            /\ status_code' = 200
            /\ UNCHANGED <<schedules, next_execution_id, session>>
    /\ UNCHANGED <<now, foreign_keys>>

\* --------------------------------------------------------------- queries
\* a plausible slip: the filter on is_active is left out, as it is in
\* GET /schedules?overdue=true
get_overdue_schedules_any ==
    {sid \in DOMAIN schedules : schedules[sid].next_due < now}

\* GET /dashboard/overdue: the ids of the rows the query returns now
get_overdue_schedules ==
    {sid \in DOMAIN schedules :
        /\ schedules[sid].next_due < now
        /\ schedules[sid].is_active = TRUE}

\* a plausible slip: the lower bound is strict
get_upcoming_schedules_strict(days) ==
    LET end_date == now + days
    IN {sid \in DOMAIN schedules :
           /\ schedules[sid].next_due > now
           /\ schedules[sid].next_due <= end_date
           /\ schedules[sid].is_active = TRUE}

\* GET /dashboard/upcoming?days=: the ids of the rows the query returns now
get_upcoming_schedules(days) ==
    LET end_date == now + days
    IN {sid \in DOMAIN schedules :
           /\ schedules[sid].next_due >= now
           /\ schedules[sid].next_due <= end_date
           /\ schedules[sid].is_active = TRUE}

\* GET /schedules?is_active=&overdue=: the ids of the rows the query returns
\* now; an Optional query parameter is the set of its value, empty when the
\* request does not carry it
get_pm_schedules(is_active, overdue) ==
    {sid \in DOMAIN schedules :
        /\ \A v \in is_active : schedules[sid].is_active = v
        /\ \A v \in overdue : v => schedules[sid].next_due < now}

\* GET /schedules/{id}: the row the query finds, none when the answer is 404
get_pm_schedule(schedule_id) ==
    {schedules[sid] : sid \in DOMAIN schedules \cap {schedule_id}}

\* GET /schedules/{id}/executions: the ids of the rows the query returns now
get_pm_executions(schedule_id) ==
    {e \in DOMAIN executions : executions[e].pm_schedule_id = schedule_id}

\* ------------------------------------------------------- specifications
\* the requests of the workers W that find the rows they name, creating
\* schedules of the frequencies F
Step(W, F) ==
    \/ Tick
    \/ \E data \in PMScheduleCreateInputs(F) : create_pm_schedule(data)
    \/ \E sid \in DOMAIN schedules : delete_pm_schedule(sid)
    \/ \E sid \in DOMAIN schedules, data \in PMExecutionCreateInputs :
          create_pm_execution(sid, data)
    \/ \E w \in W, e \in DOMAIN executions, data \in PMExecutionUpdateInputs :
          /\ data.pm_schedule_id \in DOMAIN schedules \cup {None}
          /\ update_pm_execution(w, e, data)
    \/ \E w \in W : db_commit(w)
    \/ \E e \in DOMAIN executions : delete_pm_execution(e)

Next == Step(Workers, FrequencyInputs)

\* two workers serve requests side by side
Spec == Init /\ [][Next]_vars

NextFrequencies == Step({1}, FrequencyType)

\* one worker, schedules of every frequency
SpecFrequencies == Init /\ [][NextFrequencies]_vars

\* the requests of worker w that Step leaves out: those that name a row that
\* does not exist or carry a body of the further ones, and those of
\* PUT /schedules/{id}
Faults(w) ==
    \/ \E data \in PMScheduleCreateFaults : create_pm_schedule(data)
    \/ \E sid \in 1 .. MaxSchedules, data \in PMScheduleUpdateInputs :
          update_pm_schedule(w, sid, data)
    \/ update_pm_schedule_commit(w)
    \/ \E sid \in (1 .. MaxSchedules) \ DOMAIN schedules : delete_pm_schedule(sid)
    \/ \E sid \in 1 .. MaxSchedules,
          data \in PMExecutionCreateInputs \cup PMExecutionCreateFaults :
          /\ sid \notin DOMAIN schedules \/ data \in PMExecutionCreateFaults
          /\ create_pm_execution(sid, data)
    \/ \E e \in 1 .. MaxExecutions,
          data \in PMExecutionUpdateInputs \cup PMExecutionUpdateFaults :
          /\ \/ e \notin DOMAIN executions
             \/ data \in PMExecutionUpdateFaults
             \/ data.pm_schedule_id \notin DOMAIN schedules \cup {None}
          /\ update_pm_execution(w, e, data)
    \/ \E e \in (1 .. MaxExecutions) \ DOMAIN executions : delete_pm_execution(e)

NextFaults == Step({1}, {"DAILY"}) \/ Faults(1)

\* one worker, either database, requests of every kind
SpecFaults == InitFaults /\ [][NextFaults]_vars

\* the requests of PUT /schedules/{id} that change the multiplier of a
\* schedule, served by the workers W
Edits(W) ==
    \/ \E w \in W, sid \in DOMAIN schedules, data \in PMScheduleUpdateInputs :
          /\ "frequency_value" \in data.fields_set
          /\ data.frequency_value >= 1
          /\ update_pm_schedule(w, sid, data)
    \/ \E w \in W : update_pm_schedule_commit(w)

NextEdits == Step(Workers, {"DAILY"}) \/ Edits(Workers)

\* two workers serve requests side by side, those that edit schedules included
SpecEdits == Init /\ [][NextEdits]_vars

\* ================================================================ claims
\* section 4.1 of the specification: the days one frequency unit stands for
DaysPerUnit(unit) ==
    CASE unit = "DAILY" -> 1
      [] unit = "WEEKLY" -> 7
      [] unit = "MONTHLY" -> 30
      [] unit = "QUARTERLY" -> 90
      [] unit = "ANNUAL" -> 365

\* section 4.1 of the specification: advance(base, unit, multiplier)
advance(base, unit, multiplier) == base + multiplier * DaysPerUnit(unit)

\* worker w has loaded a PUT /executions/{id} whose request carries
\* status COMPLETED, and has not committed it yet
CompletionInFlight(w) ==
    /\ session[w].pc = "commit"
    /\ session[w].execution_data.status = "COMPLETED"

\* this step is the db.commit() of worker w, and the database applies it
Commits(w) ==
    /\ session[w].pc = "commit"
    /\ session'[w].pc = "idle"
    /\ session[w].execution_id \in DOMAIN executions

\* C1: whenever update_pm_execution commits with status COMPLETED, the
\* schedule the execution references afterwards has last_completed equal to
\* the execution's completed_at and next_due equal to
\* advance(completed_at, frequency, frequency_value)
CexC1 ==
    [][\A w \in Workers :
          (CompletionInFlight(w) /\ Commits(w)) =>
              LET e == executions'[session[w].execution_id]
                  s == schedules'[e.pm_schedule_id]
              IN /\ s.last_completed = e.completed_at
                 /\ s.next_due = advance(e.completed_at, s.frequency,
                                         s.frequency_value)]_vars

\* C2: after an execution is committed as COMPLETED, its next_due_calculated
\* equals the next_due the roll-forward wrote to the schedule
CexC2 ==
    [][\A w \in Workers :
          (CompletionInFlight(w) /\ Commits(w)) =>
              executions'[session[w].execution_id].next_due_calculated
                  = schedules'[session[w].schedule_id].next_due]_vars

\* every column the session changed on a row is in the row after the step
Published(after, loaded, current) ==
    \A f \in DOMAIN loaded : current[f] # loaded[f] => after[f] = current[f]

\* C3: the status write and the roll-forward become visible in one step: a
\* step of a worker completing an execution either publishes every column it
\* changed on the execution and every column it changed on the schedule, or
\* leaves both tables as they were; no state in between is ever observable
ThmC3 ==
    [][\A w \in Workers :
          (CompletionInFlight(w) /\ session'[w] # session[w]) =>
              LET u == session[w]
              IN \/ /\ u.execution_id \in DOMAIN executions'
                    /\ Published(executions'[u.execution_id], u.execution0,
                                 u.execution)
                    /\ Published(schedules'[u.schedule_id], u.schedule0,
                                 u.schedule)
                 \/ /\ executions' = executions
                    /\ schedules' = schedules]_vars

\* a completion is committed, its schedule rolled forward, while another
\* worker is between its load and its commit
WitC3 ==
    \E e \in DOMAIN executions, w \in Workers :
        /\ executions[e].status = "COMPLETED"
        /\ executions[e].completed_at # None
        /\ schedules[executions[e].pm_schedule_id].last_completed
              = executions[e].completed_at
        /\ schedules[executions[e].pm_schedule_id].next_due
              > executions[e].completed_at
        /\ session[w].pc = "commit"

\* since worker w loaded the schedule, the completion of another execution
\* of the same schedule, at another completion time, has been committed
Overtaken(w) ==
    LET u == session[w]
        s == schedules[u.schedule_id]
    IN /\ s.last_completed # u.schedule0.last_completed
       /\ s.last_completed # u.schedule.last_completed
       /\ s.next_due = advance(s.last_completed, s.frequency, s.frequency_value)
       /\ \E e \in DOMAIN executions \ {u.execution_id} :
             /\ executions[e].pm_schedule_id = u.schedule_id
             /\ executions[e].status = "COMPLETED"
             /\ executions[e].completed_at = s.last_completed

\* C4: when two executions of one schedule are completed concurrently at
\* different times, the schedule ends with the (last_completed, next_due)
\* pair one of the two completions computed, never with a mix of the two
CexC4 ==
    [][\A w \in Workers :
          (CompletionInFlight(w) /\ Commits(w) /\ Overtaken(w)) =>
              LET u == session[w]
                  own == <<u.schedule.last_completed, u.schedule.next_due>>
                  other == <<schedules[u.schedule_id].last_completed,
                             schedules[u.schedule_id].next_due>>
              IN <<schedules'[u.schedule_id].last_completed,
                   schedules'[u.schedule_id].next_due>> \in {own, other}]_vars

\* C5: on a transition to COMPLETED the stored completed_at is the one the
\* request carries, and the time of the request only when it carries none
CexC5 ==
    [][\A w \in Workers :
          (CompletionInFlight(w) /\ Commits(w)) =>
              LET u == session[w]
                  e == executions'[u.execution_id]
              IN IF "completed_at" \in u.execution_data.fields_set
                 THEN e.completed_at = u.execution_data.completed_at
                 ELSE e.completed_at = u.execution.completed_at]_vars

\* C6: the next_due a completion computes is completed_at plus n days for
\* DAILY, 7n for WEEKLY, 30n for MONTHLY, 90n for QUARTERLY and 365n for
\* ANNUAL, n being the schedule's frequency_value
ThmC6 ==
    \A w \in Workers :
        CompletionInFlight(w) =>
            LET u == session[w]
                t == u.execution.completed_at
                n == u.schedule0.frequency_value
                unit == u.schedule0.frequency
                next_due == u.schedule.next_due
            IN /\ t = u.schedule.last_completed
               /\ unit = "DAILY" => next_due = t + n
               /\ unit = "WEEKLY" => next_due = t + 7 * n
               /\ unit = "MONTHLY" => next_due = t + 30 * n
               /\ unit = "QUARTERLY" => next_due = t + 90 * n
               /\ unit = "ANNUAL" => next_due = t + 365 * n

\* a completion of a MONTHLY schedule of multiplier 2 after day 0
WitC6 ==
    \E w \in Workers :
        /\ CompletionInFlight(w)
        /\ session[w].schedule0.frequency = "MONTHLY"
        /\ session[w].schedule0.frequency_value = 2
        /\ session[w].execution.completed_at > 0
        /\ session[w].schedule.next_due = session[w].execution.completed_at + 60

\* C7: the overdue dashboard returns exactly the schedules with is_active
\* true and next_due < now, whatever their last_completed
ThmC7 ==
    \A sid \in 1 .. MaxSchedules :
        sid \in get_overdue_schedules <=>
            /\ sid \in DOMAIN schedules
            /\ schedules[sid].is_active
            /\ schedules[sid].next_due < now

\* a never-completed schedule is returned as overdue while an inactive
\* schedule whose next_due is past is not
WitC7 ==
    \E a, b \in DOMAIN schedules :
        /\ a \in get_overdue_schedules
        /\ schedules[a].last_completed = None
        /\ ~schedules[b].is_active
        /\ schedules[b].next_due < now
        /\ b \notin get_overdue_schedules

\* C8: the upcoming dashboard returns exactly the schedules with is_active
\* true and now <= next_due <= now + days, so none that is overdue
ThmC8 ==
    \A days \in DaysInputs :
        /\ get_upcoming_schedules(days) =
              {sid \in DOMAIN schedules :
                  /\ schedules[sid].is_active
                  /\ now <= schedules[sid].next_due
                  /\ schedules[sid].next_due <= now + days}
        /\ get_upcoming_schedules(days) \cap get_overdue_schedules = {}

\* a schedule due today and one due on the last day of the horizon are both
\* returned
WitC8 ==
    \E a, b \in DOMAIN schedules :
        /\ now > 0
        /\ schedules[a].next_due = now
        /\ schedules[b].next_due = now + MaxDays
        /\ {a, b} \subseteq get_upcoming_schedules(MaxDays)

\* C9: the commit of an update whose request does not carry status COMPLETED
\* leaves last_completed and next_due of every schedule as they were
ThmC9 ==
    [][\A w \in Workers :
          (/\ session[w].pc = "commit"
           /\ session[w].execution_data.status # "COMPLETED"
           /\ session'[w] # session[w]) =>
              \A sid \in DOMAIN schedules :
                  /\ sid \in DOMAIN schedules'
                  /\ schedules'[sid].last_completed = schedules[sid].last_completed
                  /\ schedules'[sid].next_due = schedules[sid].next_due]_vars

\* an execution has been cancelled without ever being completed, after
\* another execution of the same schedule was completed, and the schedule
\* holds what that completion left
WitC9 ==
    \E e, c \in DOMAIN executions :
        /\ executions[e].status = "CANCELLED"
        /\ executions[e].completed_at = None
        /\ executions[c].status = "COMPLETED"
        /\ executions[c].pm_schedule_id = executions[e].pm_schedule_id
        /\ schedules[executions[c].pm_schedule_id].last_completed
              = executions[c].completed_at

\* C10: once an execution's status is COMPLETED or CANCELLED no later update
\* changes it
CexC10 ==
    [][\A e \in DOMAIN executions :
          (e \in DOMAIN executions'
           /\ executions[e].status \in {"COMPLETED", "CANCELLED"}) =>
              executions'[e].status = executions[e].status]_vars

\* this step answers a request
Answers ==
    \/ requests' # requests /\ session' = session
    \/ \E w \in Workers : session[w].pc # "idle" /\ session'[w].pc = "idle"

\* C11: every execution has status SCHEDULED right after Create Execution,
\* whatever the create request carries, so that none is born COMPLETED
CexC11 ==
    [][\A e \in DOMAIN executions' \ DOMAIN executions :
          executions'[e].status = "SCHEDULED"]_vars

\* C12: after a committed transition to IN_PROGRESS started_at is the stored
\* started_at when there was one, otherwise the one the request carries,
\* otherwise the time of the request
CexC12 ==
    [][\A w \in Workers :
          (/\ session[w].pc = "commit"
           /\ session[w].execution_data.status = "IN_PROGRESS"
           /\ Commits(w)
           /\ status_code' = 200) =>
              LET u == session[w]
                  before == executions[u.execution_id].started_at
                  after == executions'[u.execution_id].started_at
              IN IF before # None THEN after = before
                 ELSE IF "started_at" \in u.execution_data.fields_set
                 THEN after = u.execution_data.started_at
                 ELSE after \in 0 .. now]_vars

\* C13: a completion that fails, its execution not found or its commit
\* raising, leaves pm_executions and pm_schedules as they were: a step that
\* answers an error writes nothing, and so does the commit of a completion
\* that does not succeed
ThmC13 ==
    [][/\ (Answers /\ status_code' # 200) =>
              (executions' = executions /\ schedules' = schedules)
       /\ \A w \in Workers :
              (CompletionInFlight(w) /\ session'[w].pc = "idle"
               /\ ~commit_succeeds(w)) =>
                  /\ status_code' # 200
                  /\ executions' = executions
                  /\ schedules' = schedules]_vars

\* a completion is about to commit its status and the roll-forward of its
\* schedule, and the commit will raise
WitC13 ==
    \E w \in Workers :
        /\ CompletionInFlight(w)
        /\ ~commit_succeeds(w)
        /\ session[w].execution.status # session[w].execution0.status
        /\ session[w].schedule0 # NoSchedule
        /\ session[w].schedule.next_due # session[w].schedule0.next_due

\* C14: no two completions of the same schedule are between their load of
\* the schedule and their commit at the same time
CexC14 ==
    \A w1, w2 \in Workers :
        (/\ w1 # w2
         /\ CompletionInFlight(w1)
         /\ CompletionInFlight(w2)) =>
            session[w1].schedule_id # session[w2].schedule_id

\* C15: a schedule with is_active false is returned by no overdue or upcoming
\* query, the listing with overdue=true included, while GET /schedules/{id}
\* finds it and its executions are listed
CexC15 ==
    \A sid \in DOMAIN schedules :
        schedules[sid].is_active = FALSE =>
            /\ sid \notin get_overdue_schedules
            /\ \A days \in DaysInputs : sid \notin get_upcoming_schedules(days)
            /\ sid \notin get_pm_schedules({}, {TRUE})
            /\ get_pm_schedule(sid) = {schedules[sid]}
            /\ get_pm_executions(sid) =
                  {e \in DOMAIN executions : executions[e].pm_schedule_id = sid}

\* C16: every schedule has frequency_value >= 1 and a frequency of
\* FrequencyType, and a create or update of a schedule answered 422 leaves
\* the stored state as it was
ThmC16 ==
    [][/\ \A sid \in DOMAIN schedules' :
              /\ schedules'[sid].frequency_value >= 1
              /\ schedules'[sid].frequency \in FrequencyType
       /\ (Answers /\ status_code' = 422) =>
              (schedules' = schedules /\ executions' = executions)]_vars

\* a request was answered 422 while a schedule is stored
WitC16 ==
    /\ status_code = 422
    /\ schedules # << >>
    /\ requests >= 2

\* C17: no schedule is created for a machine, a procedure or a responsible
\* user that does not exist
CexC17 ==
    [][\A sid \in DOMAIN schedules' \ DOMAIN schedules :
          /\ schedules'[sid].machine_id \in Machines
          /\ schedules'[sid].procedure_id \in Procedures
          /\ schedules'[sid].user_id \in Users]_vars

\* C18: the pm_schedule_id of every execution is the id of a schedule
CexC18 ==
    \A e \in DOMAIN executions :
        executions[e].pm_schedule_id \in DOMAIN schedules

\* C19: the executed_by_id of every execution is the id of a user
CexC19 ==
    \A e \in DOMAIN executions :
        executions[e].executed_by_id \in Users

\* C20: a schedule that Update Schedule has not edited has last_completed
\* null or next_due = advance(last_completed, frequency, frequency_value):
\* every step other than the commit of an Update Schedule that creates a
\* schedule or changes its last_completed or next_due leaves it so
CexC20 ==
    [][\A sid \in DOMAIN schedules' :
          LET s == schedules'[sid]
          IN (/\ \/ sid \notin DOMAIN schedules
                 \/ s.last_completed # schedules[sid].last_completed
                 \/ s.next_due # schedules[sid].next_due
              /\ \A w \in Workers : session[w].pc # "commit_schedule") =>
                 \/ s.last_completed = None
                 \/ s.next_due = advance(s.last_completed, s.frequency,
                                         s.frequency_value)]_vars

\* this step is the db.commit() of worker w, and it succeeds
Committed(w) ==
    /\ Commits(w)
    /\ status_code' = 200

\* C21: the next_due a roll-forward writes is later than the completion time
\* it is computed from, so that right after the commit of a completion the
\* schedule rolled forward has next_due > last_completed
CexC21 ==
    [][\A w \in Workers :
          (CompletionInFlight(w) /\ Committed(w)) =>
              /\ session[w].schedule.next_due > session[w].execution.completed_at
              /\ schedules'[session[w].schedule_id].next_due
                    > schedules'[session[w].schedule_id].last_completed]_vars

\* this step is the load-and-change of a request of worker w that carries
\* status COMPLETED for an execution stored as COMPLETED
Recompletes(w) ==
    /\ session[w].pc = "idle"
    /\ session'[w].pc = "commit"
    /\ session'[w].execution_data.status = "COMPLETED"
    /\ session'[w].execution0.status = "COMPLETED"

\* C22: nothing guards a second completion: a request with status COMPLETED
\* for an execution already COMPLETED stamps completed_at with the time of the
\* request and computes last_completed and next_due of the execution's
\* schedule from it, and its commit publishes them over the stored ones
ThmC22 ==
    [][\A w \in Workers :
          /\ Recompletes(w) =>
                LET u == session'[w]
                IN /\ u.execution.completed_at = now
                   /\ u.schedule.last_completed = now
                   /\ u.schedule.next_due =
                         advance(now, u.schedule0.frequency,
                                 u.schedule0.frequency_value)
          /\ (/\ CompletionInFlight(w)
              /\ session[w].execution0.status = "COMPLETED"
              /\ Committed(w)) =>
                LET u == session[w]
                IN /\ Published(executions'[u.execution_id], u.execution0,
                                u.execution)
                   /\ Published(schedules'[u.schedule_id], u.schedule0,
                                u.schedule)]_vars

\* an execution completed on an earlier day is being completed again: the
\* session holds a later completed_at for it and a later last_completed and
\* next_due for its schedule
WitC22 ==
    \E w \in Workers :
        /\ CompletionInFlight(w)
        /\ session[w].execution0.status = "COMPLETED"
        /\ session[w].execution0.completed_at # None
        /\ session[w].schedule0.last_completed = session[w].execution0.completed_at
        /\ session[w].execution.completed_at > session[w].execution0.completed_at
        /\ session[w].schedule.last_completed > session[w].schedule0.last_completed
        /\ session[w].schedule.next_due > session[w].schedule0.next_due

\* C23: the roll-forward is a function of the completion time and the policy
\* alone: two completions in flight at the same completion time on schedules
\* of the same frequency and frequency_value hold the same last_completed and
\* next_due, whatever last_completed, next_due and is_active they loaded
ThmC23 ==
    \A w1, w2 \in Workers :
        (/\ CompletionInFlight(w1)
         /\ CompletionInFlight(w2)
         /\ session[w1].execution.completed_at = session[w2].execution.completed_at
         /\ session[w1].schedule0.frequency = session[w2].schedule0.frequency
         /\ session[w1].schedule0.frequency_value
               = session[w2].schedule0.frequency_value) =>
            /\ session[w1].schedule.last_completed
                  = session[w2].schedule.last_completed
            /\ session[w1].schedule.next_due = session[w2].schedule.next_due

\* two completions of the same day are in flight, one loaded the schedule
\* before and one after an earlier completion was committed, so that they
\* loaded different last_completed and next_due, and the one that loaded the
\* later next_due moves it backwards
WitC23 ==
    \E w1, w2 \in Workers :
        /\ CompletionInFlight(w1)
        /\ CompletionInFlight(w2)
        /\ session[w1].execution.completed_at = session[w2].execution.completed_at
        /\ session[w1].schedule0.frequency = session[w2].schedule0.frequency
        /\ session[w1].schedule0.frequency_value
              = session[w2].schedule0.frequency_value
        /\ session[w1].schedule0.last_completed
              # session[w2].schedule0.last_completed
        /\ session[w1].schedule0.next_due # session[w2].schedule0.next_due
        /\ session[w2].schedule.next_due < session[w2].schedule0.next_due

\* C24: when an Update Schedule that changes the policy of a schedule is
\* committed between the load and the commit of a completion of that
\* schedule, the stored next_due after the completion's commit is
\* advance(last_completed, frequency, frequency_value) of the stored policy
CexC24 ==
    [][\A w \in Workers :
          (/\ CompletionInFlight(w)
           /\ Committed(w)
           /\ \/ schedules[session[w].schedule_id].frequency
                    # session[w].schedule0.frequency
              \/ schedules[session[w].schedule_id].frequency_value
                    # session[w].schedule0.frequency_value) =>
              LET s == schedules'[session[w].schedule_id]
              IN s.next_due = advance(s.last_completed, s.frequency,
                                      s.frequency_value)]_vars

\* C25: without Update Schedule edits the last_completed of a schedule never
\* decreases, whatever the order in which concurrent completions commit
CexC25 ==
    [][\A sid \in DOMAIN schedules :
          schedules'[sid].last_completed >= schedules[sid].last_completed]_vars

\* C26: right after the commit of a completion, and as long as the clock has
\* not passed completed_at plus the policy period, the overdue dashboard does
\* not list the schedule of the completed execution
CexC26 ==
    [][\A w \in Workers :
          (CompletionInFlight(w) /\ Committed(w)) =>
              LET e == executions'[session[w].execution_id]
                  s == schedules'[e.pm_schedule_id]
              IN now' <= advance(e.completed_at, s.frequency, s.frequency_value)
                    => e.pm_schedule_id \notin get_overdue_schedules']_vars

\* C27: the commit of a completion changes nothing but the completed
\* execution and last_completed and next_due of its parent schedule, the
\* schedule it references afterwards: the other columns of that schedule,
\* every other schedule and every other execution are as they were
CexC27 ==
    [][\A w \in Workers :
          (CompletionInFlight(w) /\ Committed(w)) =>
              LET parent == executions'[session[w].execution_id].pm_schedule_id
              IN /\ DOMAIN schedules' = DOMAIN schedules
                 /\ DOMAIN executions' = DOMAIN executions
                 /\ \A f \in DOMAIN schedules[parent]
                             \ {"last_completed", "next_due"} :
                       schedules'[parent][f] = schedules[parent][f]
                 /\ \A sid \in DOMAIN schedules \ {parent} :
                       schedules'[sid] = schedules[sid]
                 /\ \A e \in DOMAIN executions \ {session[w].execution_id} :
                       executions'[e] = executions[e]]_vars

\* C28: after the commit of a request that changes pm_schedule_id and sets
\* status COMPLETED, the schedule of the stored pm_schedule_id has
\* last_completed equal to the execution's completed_at
CexC28 ==
    [][\A w \in Workers :
          (/\ CompletionInFlight(w)
           /\ Committed(w)
           /\ "pm_schedule_id" \in session[w].execution_data.fields_set
           /\ session[w].execution_data.pm_schedule_id
                 # session[w].execution0.pm_schedule_id) =>
              LET e == executions'[session[w].execution_id]
              IN schedules'[e.pm_schedule_id].last_completed = e.completed_at]_vars

\* C29: a schedule created with last_completed null and never edited has,
\* whenever its last_completed is set, a COMPLETED execution of its own whose
\* completed_at is that last_completed
CexC29 ==
    \A sid \in DOMAIN schedules :
        schedules[sid].last_completed # None =>
            \E e \in DOMAIN executions :
                /\ executions[e].pm_schedule_id = sid
                /\ executions[e].status = "COMPLETED"
                /\ executions[e].completed_at = schedules[sid].last_completed

\* C30: an execution has status COMPLETED exactly when its completed_at is
\* set
CexC30 ==
    \A e \in DOMAIN executions :
        executions[e].status = "COMPLETED" <=> executions[e].completed_at # None

====
